---- MODULE Spec2Model ----
(***************************************************************************)
(* Room Finder (alexa-room-finder): the Alexa skill handlers of            *)
(* lambda/index.js and the Microsoft Graph requesters of                   *)
(* lambda/requesters.js, as one state machine.                             *)
(*                                                                         *)
(* One session of the skill is modelled.  Every inbound intent starts one  *)
(* invocation of exports.handler; a synchronous handler is one action, and *)
(* a handler that waits for HTTP replies (DurationIntent, the              *)
(* confirm-mode BookIntent) is one action per callback.  Q runs the        *)
(* then-handlers of a settled promise from process.nextTick, before any    *)
(* further I/O callback, so a callback and the promise handlers it         *)
(* triggers are one atomic step.                                           *)
(***************************************************************************)
EXTENDS Integers, Sequences, FiniteSets, TLC

\* ------------------------------------------------------------- bounds
\* Calendars 1..MaxCals of the directory are meeting rooms on the allow-list.
MaxCals == 3
\* Invocations per session; the invocation number is also the wall clock.
MaxTurns == 4

\* ------------------------------------------------------------- values
undefined == [undefined |-> TRUE]
false == [false |-> TRUE]
\* if (value): undefined and false are falsy, an object is truthy
truthy(value) == value \notin {undefined, false}

\* states (index.js 18-21); '' is the default, stateless, state
CONFIRMMODE == "_CONFIRMMODE"
TIMEMODE == "_TIMEMODE"

\* Calendar 0 is a calendar of the user's that is no meeting room.
Calendars == 0..MaxCals

calendarName(c) == [room |-> c]
calendarOwner(c) == [name |-> [ownerName |-> c], address |-> [mailbox |-> c]]

\* config.testNames: the names of the meeting rooms
testNames == {calendarName(c) : c \in 1..MaxCals}

\* this.t(key, arg): the localized string of resources.js with its argument
t(key, arg) == [key |-> key, arg |-> arg]

\* The intents and request types the platform delivers.
Intents ==
  {"LaunchRequest", "BookIntent", "DurationIntent", "AMAZON.YesIntent",
   "AMAZON.NoIntent", "AMAZON.StopIntent", "AMAZON.CancelIntent",
   "AMAZON.HelpIntent", "AMAZON.RepeatIntent", "AMAZON.StartOverIntent",
   "OtherIntent"}

\* Mutant: timeModeHandlers registers no listener for the stop, cancel and
\* negative intents.
ListenersTimeModeNoStop(state) ==
  IF state = TIMEMODE
    THEN {"AMAZON.HelpIntent", "AMAZON.RepeatIntent", "DurationIntent",
          "AMAZON.StartOverIntent", "Unhandled"}
  ELSE IF state = CONFIRMMODE
    THEN {"AMAZON.HelpIntent", "AMAZON.RepeatIntent", "AMAZON.StopIntent",
          "AMAZON.CancelIntent", "AMAZON.NoIntent", "AMAZON.YesIntent",
          "BookIntent", "AMAZON.StartOverIntent", "Unhandled"}
  ELSE {"LaunchRequest", "AMAZON.HelpIntent", "AMAZON.RepeatIntent",
        "AMAZON.StopIntent", "AMAZON.CancelIntent", "AMAZON.NoIntent",
        "AMAZON.YesIntent", "BookIntent", "Unhandled", "SessionEndedRequest"}

\* The listeners registered for each state (registerHandlers, index.js 351).
Listeners(state) ==
  IF state = TIMEMODE
    THEN {"AMAZON.HelpIntent", "AMAZON.RepeatIntent", "AMAZON.StopIntent",
          "AMAZON.CancelIntent", "AMAZON.NoIntent", "DurationIntent",
          "AMAZON.StartOverIntent", "Unhandled"}
  ELSE IF state = CONFIRMMODE
    THEN {"AMAZON.HelpIntent", "AMAZON.RepeatIntent", "AMAZON.StopIntent",
          "AMAZON.CancelIntent", "AMAZON.NoIntent", "AMAZON.YesIntent",
          "BookIntent", "AMAZON.StartOverIntent", "Unhandled"}
  ELSE {"LaunchRequest", "AMAZON.HelpIntent", "AMAZON.RepeatIntent",
        "AMAZON.StopIntent", "AMAZON.CancelIntent", "AMAZON.NoIntent",
        "AMAZON.YesIntent", "BookIntent", "Unhandled", "SessionEndedRequest"}

\* EmitEvent of the SDK: the listener an intent reaches in a state; an
\* intent with no listener in the state reaches the state's Unhandled.
Dispatch(state, intent) ==
  IF intent \in Listeners(state) THEN intent ELSE "Unhandled"

\* ------------------------------------------------------------- HTTP
\* What the request package hands a callback (err, response, body):
\*   "free"      err null, body {"value": []}
\*   "busy"      err null, body {"value": [events]}
\*   "ok"        err null, body the created event / the calendar list
\*   "error"     err null, body {"error": {...}}
\*   "garbage"   err null, body that is no JSON (e.g. the reply to a bad token)
\*   "transport" err set, body undefined
replyErr(reply) == IF reply = "transport" THEN [err |-> TRUE] ELSE undefined

\* JSON.parse(body) throws a SyntaxError on undefined and on non-JSON text.
JSONparseThrows(reply) == reply \in {"garbage", "transport"}

ViewReplies == {"free", "busy", "error", "garbage", "transport"}
PostReplies == {"ok", "error", "garbage", "transport"}
ListReplies == {"ok", "error", "garbage", "transport"}

\* ------------------------------------------------------------- promises
\* Q.defer(): a deferred settles once; later resolve/reject calls are ignored.
Qdefer == [state |-> "pending", value |-> undefined]
\* findFreeRoom has not been called in this invocation
NoDeferred == [state |-> "none", value |-> undefined]
\* Mutant: resolve takes effect on a promise that is already settled.
QresolveSettled(deferred, value) ==
  IF deferred.state # "none"
    THEN [state |-> "fulfilled", value |-> value]
    ELSE deferred

Qresolve(deferred, value) ==
  IF deferred.state = "pending"
    THEN [state |-> "fulfilled", value |-> value]
    ELSE deferred
Qreject(deferred, reason) ==
  IF deferred.state = "pending"
    THEN [state |-> "rejected", value |-> reason]
    ELSE deferred

\* ------------------------------------------------------------- state
VARIABLES
  sessionOpen,   \* the platform keeps the session open
  attributes,    \* this.attributes: the session attributes, STATE included
  handlerState,  \* this.handler.state
  now,           \* invocations started so far; the wall clock
  event,         \* the state, intent and slot of the current/last invocation
  pc,            \* "idle", or the HTTP reply the invocation waits for
  exit,          \* how the last invocation ended
  responses,     \* responses produced by the current/last invocation
  response,      \* the last response handed to context.succeed
  parsedCals,    \* the directory listing getCalendars resolved to
  inFlight,      \* calendars whose calendarView request is outstanding
  completions,   \* the calendarView replies, in completion order
  findFree,      \* the deferred of requesters.findFreeRoom
  postCalls,     \* calls of requesters.postRoom in this session
  posts,         \* request.post requests issued in this session
  requested,     \* HTTP requests the current/last invocation issued, by endpoint
  postReply,     \* what came back to the request.post of the invocation
  lookup,        \* the window the last findFreeRoom asked for, and its result
  posted,        \* the event the last request.post carried
  heard,         \* the intents delivered so far, while they follow Scenario
  transcript     \* the responses returned to them

vars ==
  <<sessionOpen, attributes, handlerState, now, event, pc, exit, responses,
    response, parsedCals, inFlight, completions, findFree, postCalls, posts,
    requested, postReply, lookup, posted, heard, transcript>>

resolverVars == <<parsedCals, inFlight, completions, findFree>>
postVars == <<postCalls, posts, posted>>

NoAttributes ==
  [STATE |-> "", ownerAddress |-> undefined, ownerName |-> undefined,
   roomName |-> undefined, startTime |-> undefined, endTime |-> undefined,
   duration |-> undefined, speechOutput |-> undefined,
   repromptSpeech |-> undefined]

NoResponse == [type |-> "none"]

NoRequests == [calendars |-> 0, calendarView |-> 0, events |-> 0]
\* findFreeRoom has not been called in this session
NoLookup == [startTime |-> undefined, endTime |-> undefined, creds |-> undefined]
\* request.post has not been called in this session
NoEvent == [Start |-> undefined, End |-> undefined, EmailAddress |-> undefined]

\* The booking dialogue from its first intent to the confirmation: a booking
\* is asked for, half an hour is given, the room found is accepted.  `heard`
\* and `transcript` keep the history of a session for as long as it follows
\* this dialogue, and are Off and empty from the first intent that leaves it.
Scenario ==
  <<[intent |-> "BookIntent", slot |-> undefined],
    [intent |-> "DurationIntent", slot |-> [h |-> 0, m |-> 30]],
    [intent |-> "AMAZON.YesIntent", slot |-> undefined]>>
Off == <<[intent |-> "none", slot |-> undefined]>>
Follow(history, request) ==
  IF /\ history # Off
     /\ Len(history) < Len(Scenario)
     /\ Scenario[Len(history) + 1] = request
    THEN Append(history, request)
    ELSE Off

Init ==
  /\ sessionOpen = TRUE
  /\ attributes = NoAttributes
  /\ handlerState = ""
  /\ now = 0
  /\ event = [state |-> "", intent |-> "none", slot |-> undefined]
  /\ pc = "idle"
  /\ exit = "none"
  /\ responses = 0
  /\ response = NoResponse
  /\ parsedCals = {}
  /\ inFlight = {}
  /\ completions = <<>>
  /\ findFree = NoDeferred
  /\ postCalls = 0
  /\ posts = 0
  /\ requested = NoRequests
  /\ postReply = "none"
  /\ lookup = NoLookup
  /\ posted = NoEvent
  /\ heard = <<>>
  /\ transcript = <<>>

\* ------------------------------------------------------------- responses
\* ':responseReady' of the SDK: the response carries this.attributes, with
\* STATE overwritten by this.handler.state when that is truthy, and goes to
\* context.succeed.  `count` is the number of responses the invocation has
\* produced before this one.
responseReady(type, speech, reprompt, card, attrs, state, count) ==
  LET sent == [attrs EXCEPT !.STATE = IF state # "" THEN state ELSE @] IN
  /\ response' = [type |-> type, speech |-> speech, reprompt |-> reprompt,
                  card |-> card, sessionAttributes |-> sent,
                  shouldEndSession |-> (type # ":ask")]
  /\ attributes' = sent
  /\ handlerState' = state
  /\ responses' = count + 1
  /\ sessionOpen' = (type = ":ask")
  /\ pc' = "idle"
  /\ exit' = "response"
  /\ transcript' =
       IF heard' = Off
         THEN <<>>
         ELSE Append(transcript, [type |-> type, speech |-> speech,
                                  reprompt |-> reprompt, card |-> card])

\* Mutant: the reprompt is not stored.
emitAskSpeechOnly(attrs, state, count, speechOutput, repromptSpeech) ==
  responseReady(":ask", speechOutput, repromptSpeech, undefined,
                [attrs EXCEPT !.speechOutput = speechOutput], state, count)

\* emitAsk (index.js 247-251)
emitAsk(attrs, state, count, speechOutput, repromptSpeech) ==
  responseReady(":ask", speechOutput, repromptSpeech, undefined,
                [attrs EXCEPT !.speechOutput = speechOutput,
                              !.repromptSpeech = repromptSpeech],
                state, count)

\* this.emit(':tell', speech)
emitTell(attrs, state, count, speech) ==
  responseReady(":tell", speech, undefined, undefined, attrs, state, count)

\* this.emit(':tellWithCard', speech, cardTitle, cardContent)
emitTellWithCard(attrs, state, count, speech, cardTitle, cardContent) ==
  responseReady(":tellWithCard", speech, undefined,
                [title |-> cardTitle, content |-> cardContent],
                attrs, state, count)

\* Mutant: the reset forgets the duration.
resetAttributesKeepsDuration(attrs) ==
  [attrs EXCEPT !.ownerAddress = undefined, !.ownerName = undefined,
                !.roomName = undefined, !.startTime = undefined,
                !.endTime = undefined,
                !.speechOutput = undefined, !.repromptSpeech = undefined]

\* resetAttributes (index.js 258-267)
resetAttributes(attrs) ==
  [attrs EXCEPT !.ownerAddress = undefined, !.ownerName = undefined,
                !.roomName = undefined, !.startTime = undefined,
                !.endTime = undefined, !.duration = undefined,
                !.speechOutput = undefined, !.repromptSpeech = undefined]

\* An uncaught exception in a callback: the invocation dies with no response,
\* and with it the process and its outstanding requests.  The platform closes
\* a session whose skill returned no response.
Throw ==
  /\ pc' = "idle"
  /\ exit' = "exception"
  /\ sessionOpen' = FALSE
  /\ inFlight' = {}
  /\ UNCHANGED <<attributes, handlerState, responses, response, transcript>>

\* ------------------------------------------------------------- dispatch
\* alexa.execute(): an intent arrives in an open session; the handler context
\* takes the session attributes of the request and the state stored in them.
\* `slot` is the value of the Duration slot of the request.
Begin(state, listeners, slot) ==
  /\ sessionOpen
  /\ pc = "idle"
  /\ now < MaxTurns
  /\ attributes.STATE = state
  /\ now' = now + 1
  /\ \E intent \in Intents :
       /\ Dispatch(state, intent) \in listeners
       /\ event' = [state |-> state, intent |-> intent, slot |-> slot]
       /\ heard' = Follow(heard, [intent |-> intent, slot |-> slot])
  /\ parsedCals' = {}
  /\ inFlight' = {}
  /\ completions' = <<>>
  /\ findFree' = NoDeferred
  /\ postReply' = "none"
  /\ UNCHANGED lookup

States == {"", TIMEMODE, CONFIRMMODE}

\* ------------------------------------------------------------- sessionHandlers
\* 'LaunchRequest' (index.js 29-33)
LaunchRequest ==
  /\ Begin("", {"LaunchRequest"}, undefined)
  /\ emitAsk(attributes, "", 0,
             t("WELCOME_MESSAGE", t("BUSINESS_NAME", undefined)),
             t("WELCOME_REPROMPT", t("SKILL_NAME", undefined)))
  /\ requested' = NoRequests
  /\ UNCHANGED postVars

\* Mutant: every state answers with the help of the default state.
HelpIntentStateless ==
  \E state \in States :
    /\ Begin(state, {"AMAZON.HelpIntent"}, undefined)
    /\ emitAsk(attributes, state, 0,
               t("HELP_MESSAGE", undefined), t("HELP_REPROMPT", undefined))
    /\ requested' = NoRequests
    /\ UNCHANGED postVars

\* 'AMAZON.HelpIntent' (index.js 35-39, 88-93, 183-188)
HelpIntent ==
  \E state \in States :
    /\ Begin(state, {"AMAZON.HelpIntent"}, undefined)
    /\ IF state = TIMEMODE
         THEN emitAsk(attributes, state, 0,
                      t("TIME_HELP_MESSAGE", attributes.roomName),
                      t("TIME_HELP_REPROMPT", attributes.roomName))
       ELSE IF state = CONFIRMMODE
         THEN emitAsk(attributes, state, 0,
                      t("BOOKING_HELP_MESSAGE", attributes.roomName),
                      t("BOOKING_HELP_REPROMPT", attributes.roomName))
       ELSE emitAsk(attributes, state, 0,
                    t("HELP_MESSAGE", undefined), t("HELP_REPROMPT", undefined))
    /\ requested' = NoRequests
    /\ UNCHANGED postVars

\* Mutant: the reprompt is spoken in place of the speech.
RepeatIntentReprompt ==
  \E state \in States :
    /\ Begin(state, {"AMAZON.RepeatIntent"}, undefined)
    /\ emitAsk(attributes, state, 0,
               attributes.repromptSpeech, attributes.repromptSpeech)
    /\ requested' = NoRequests
    /\ UNCHANGED postVars

\* emitRepeat (index.js 288-292), from 'AMAZON.RepeatIntent' of every state
\* (index.js 41-43, 95-97, 190-192)
RepeatIntent ==
  \E state \in States :
    /\ Begin(state, {"AMAZON.RepeatIntent"}, undefined)
    /\ emitAsk(attributes, state, 0,
               attributes.speechOutput, attributes.repromptSpeech)
    /\ requested' = NoRequests
    /\ UNCHANGED postVars

\* Mutant: the goodbye is asked, which keeps the session open.
SessionEndedRequestAsk ==
  \E state \in States :
    /\ Begin(state, {"AMAZON.StopIntent", "AMAZON.CancelIntent",
                     "AMAZON.NoIntent"}, undefined)
    /\ emitAsk(attributes, state, 0, t("STOP_MESSAGE", undefined),
               t("STOP_MESSAGE", undefined))
    /\ requested' = NoRequests
    /\ UNCHANGED postVars

\* Mutant: the attributes are reset before the goodbye.
SessionEndedRequestResets ==
  \E state \in States :
    /\ Begin(state, {"AMAZON.StopIntent", "AMAZON.CancelIntent",
                     "AMAZON.NoIntent"}, undefined)
    /\ emitTell(resetAttributes(attributes), state, 0,
                t("STOP_MESSAGE", undefined))
    /\ requested' = NoRequests
    /\ UNCHANGED postVars

\* 'AMAZON.StopIntent', 'AMAZON.CancelIntent', 'AMAZON.NoIntent' of every state
\* emit 'SessionEndedRequest' (index.js 45-53, 99-107, 194-202), the stateless
\* listener (index.js 76-78).
SessionEndedRequest ==
  \E state \in States :
    /\ Begin(state, {"AMAZON.StopIntent", "AMAZON.CancelIntent",
                     "AMAZON.NoIntent"}, undefined)
    /\ emitTell(attributes, state, 0, t("STOP_MESSAGE", undefined))
    /\ requested' = NoRequests
    /\ UNCHANGED postVars

\* Mutant: the handler state is not set before the prompt.
BookIntentKeepsState ==
  /\ Begin("", {"AMAZON.YesIntent", "BookIntent"}, undefined)
  /\ emitAsk(attributes, "", 0,
             t("TIME_DURATION_MESSAGE", undefined),
             t("TIME_DURATION_REPROMPT", undefined))
  /\ requested' = NoRequests
  /\ UNCHANGED postVars

\* Mutant: the handler is found by the name of the intent alone, so that it
\* also answers in _CONFIRMMODE.
BookIntentByName ==
  \E state \in {"", CONFIRMMODE} :
    /\ Begin(state, {"AMAZON.YesIntent", "BookIntent"}, undefined)
    /\ emitAsk(attributes, TIMEMODE, 0,
               t("TIME_DURATION_MESSAGE", undefined),
               t("TIME_DURATION_REPROMPT", undefined))
    /\ requested' = NoRequests
    /\ UNCHANGED postVars

\* 'BookIntent' of the default state, also reached from 'AMAZON.YesIntent'
\* (index.js 55-67)
BookIntent ==
  /\ Begin("", {"AMAZON.YesIntent", "BookIntent"}, undefined)
  /\ emitAsk(attributes, TIMEMODE, 0,
             t("TIME_DURATION_MESSAGE", undefined),
             t("TIME_DURATION_REPROMPT", undefined))
  /\ requested' = NoRequests
  /\ UNCHANGED postVars

\* Mutant: an intent without a listener is dropped; nothing is answered.
UnhandledIgnored ==
  \E state \in States :
    /\ Begin(state, {"Unhandled"}, undefined)
    /\ pc' = "idle"
    /\ exit' = "none"
    /\ responses' = 0
    /\ requested' = NoRequests
    /\ UNCHANGED <<sessionOpen, attributes, handlerState, response, transcript>>
    /\ UNCHANGED postVars

\* 'Unhandled' (index.js 69-74, 168-173, 231-236)
Unhandled ==
  \E state \in States :
    /\ Begin(state, {"Unhandled"}, undefined)
    /\ IF state = TIMEMODE
         THEN emitAsk(attributes, state, 0,
                      t("TIME_UNHANDLED_MESSAGE", undefined),
                      t("TIME_UNHANDLED_REPROMPT", undefined))
       ELSE IF state = CONFIRMMODE
         THEN emitAsk(attributes, state, 0,
                      t("BOOKING_UNHANDLED_MESSAGE", undefined),
                      t("BOOKING_UNHANDLED_REPROMPT", undefined))
       ELSE emitAsk(attributes, state, 0,
                    t("UNHANDLED_MESSAGE", undefined),
                    t("UNHANDLED_REPROMPT", undefined))
    /\ requested' = NoRequests
    /\ UNCHANGED postVars

\* Mutant: the STATE session attribute is emptied but this.handler.state is
\* left as it was, so that ':responseReady' writes the arrival state back.
emitStartOverHandlerStateKept ==
  \E state \in {TIMEMODE, CONFIRMMODE} :
    /\ Begin(state, {"AMAZON.StartOverIntent"}, undefined)
    /\ emitAsk(resetAttributes([attributes EXCEPT !.STATE = ""]), state, 0,
               t("WELCOME_MESSAGE", t("BUSINESS_NAME", undefined)),
               t("WELCOME_REPROMPT", t("SKILL_NAME", undefined)))
    /\ requested' = NoRequests
    /\ UNCHANGED postVars

\* Mutant: the STATE session attribute is not written directly, so that the
\* empty handler state leaves the stored state as it was.
emitStartOverKeepsState ==
  \E state \in {TIMEMODE, CONFIRMMODE} :
    /\ Begin(state, {"AMAZON.StartOverIntent"}, undefined)
    /\ emitAsk(resetAttributes(attributes), "", 0,
               t("WELCOME_MESSAGE", t("BUSINESS_NAME", undefined)),
               t("WELCOME_REPROMPT", t("SKILL_NAME", undefined)))
    /\ requested' = NoRequests
    /\ UNCHANGED postVars

\* emitStartOver (index.js 274-281), from 'AMAZON.StartOverIntent' of
\* _TIMEMODE and _CONFIRMMODE (index.js 164-166, 227-229): the state and the
\* STATE session attribute become '', the attributes are reset, and
\* emitWithState('LaunchRequest') reaches the stateless 'LaunchRequest'.
emitStartOver ==
  \E state \in {TIMEMODE, CONFIRMMODE} :
    /\ Begin(state, {"AMAZON.StartOverIntent"}, undefined)
    /\ emitAsk(resetAttributes([attributes EXCEPT !.STATE = ""]), "", 0,
               t("WELCOME_MESSAGE", t("BUSINESS_NAME", undefined)),
               t("WELCOME_REPROMPT", t("SKILL_NAME", undefined)))
    /\ requested' = NoRequests
    /\ UNCHANGED postVars

\* ------------------------------------------------------------- durations
\* The Duration slot: an ISO-8601 duration "PT<h>H<m>M" (a leading minus sign
\* makes both parts negative), or a value that is no duration, or no value.
DurationSlots ==
  {[h |-> 0, m |-> 30], [h |-> 2, m |-> 0], [h |-> 2, m |-> 1],
   [h |-> 3, m |-> 0], [h |-> 0, m |-> 0], [h |-> 0, m |-> -30],
   [text |-> "soon"], undefined}

\* moment.duration(value), in milliseconds: what is no ISO-8601 duration,
\* and undefined, make the zero duration.
momentDuration(value) ==
  IF DOMAIN value = {"h", "m"}
    THEN (value.h * 60 + value.m) * 60000
    ELSE 0

\* Mutant: the cap itself is refused.
tooLongAtCap(bookingDuration) == bookingDuration >= 2 * 3600000

\* bookingDuration.asHours() > 2  (index.js 114)
tooLong(bookingDuration) == bookingDuration > 2 * 3600000
\* bookingDuration.asHours() <= 0  (index.js 120)
tooShort(bookingDuration) == bookingDuration <= 0
\* Mutant: the span is stored in hours.
asMinutesInHours(bookingDuration) == bookingDuration \div 3600000
asMinutes(bookingDuration) == bookingDuration \div 60000

\* Mutant: the end of the span is not stored.
setDurationNoEnd(attrs, bookingDuration, time) ==
  [attrs EXCEPT !.startTime = [minute |-> time * 60],
                !.duration = [minutes |-> asMinutes(bookingDuration)]]

\* setDuration (index.js 301-310); `time` is new Date(), and the clock of the
\* model counts in hours, the span in minutes.
setDuration(attrs, bookingDuration, time) ==
  [attrs EXCEPT !.startTime = [minute |-> time * 60],
                !.endTime = [minute |-> time * 60 + asMinutes(bookingDuration)],
                !.duration = [minutes |-> asMinutes(bookingDuration)]]

\* ------------------------------------------------------------- requesters
\* The credentials findFreeRoom resolves to (index.js 502-506)
creds(calendar) ==
  [ownerName |-> calendarOwner(calendar).name,
   ownerAddress |-> calendarOwner(calendar).address,
   name |-> calendarName(calendar)]

\* Mutant: the test of the event list inverted (value != ''), so that a busy
\* calendar resolves and a free one does nothing.
findFreeRoomCallbackInverted(deferred, calendar, reply) ==
  IF replyErr(reply) # undefined
    THEN Qreject(deferred, [err |-> calendar])
  ELSE IF reply = "error"
    THEN Qreject(deferred, [message |-> calendar])
  ELSE IF reply = "busy"
    THEN Qresolve(deferred, creds(calendar))
  ELSE deferred

\* Mutant: the outcome kept in a plain variable that every error overwrites,
\* in place of a deferred that settles once.
findFreeRoomCallbackOverwrite(deferred, calendar, reply) ==
  IF replyErr(reply) # undefined
    THEN [state |-> "rejected", value |-> [err |-> calendar]]
  ELSE IF reply = "error"
    THEN [state |-> "rejected", value |-> [message |-> calendar]]
  ELSE IF reply = "free"
    THEN Qresolve(deferred, creds(calendar))
  ELSE deferred

\* Mutant: the winner is the free calendar that comes first in the listing:
\* a free reply from a calendar listed before the current winner replaces it.
findFreeRoomCallbackListOrder(deferred, calendar, reply) ==
  IF replyErr(reply) # undefined
    THEN Qreject(deferred, [err |-> calendar])
  ELSE IF reply = "error"
    THEN Qreject(deferred, [message |-> calendar])
  ELSE IF reply = "free"
    THEN IF deferred.state = "fulfilled"
           THEN IF calendar < deferred.value.name.room
                  THEN [state |-> "fulfilled", value |-> creds(calendar)]
                  ELSE deferred
           ELSE Qresolve(deferred, creds(calendar))
  ELSE deferred

\* The callback of one calendarView request (index.js 495-508), once
\* JSON.parse has returned: an error rejects, an empty event list resolves
\* to the calendar's credentials, a non-empty one does nothing.
findFreeRoomCallback(deferred, calendar, reply) ==
  IF replyErr(reply) # undefined
    THEN Qreject(deferred, [err |-> calendar])
  ELSE IF reply = "error"
    THEN Qreject(deferred, [message |-> calendar])
  ELSE IF reply = "free"
    THEN Qresolve(deferred, creds(calendar))
  ELSE deferred

\* Mutant: the name of a calendar is not looked up in the allow-list.
namesToFindAll(cals) == cals

\* The calendars findFreeRoom asks for (index.js 485-486)
namesToFind(cals) == {c \in cals : calendarName(c) \in testNames}

\* Mutant: the owner's address is not stored.
storeCredsNoAddress(attrs, c) ==
  [attrs EXCEPT !.ownerName = c.ownerName, !.roomName = c.name]

\* getRoom's handler of a resolved findFreeRoom (index.js 328-334)
storeCreds(attrs, c) ==
  [attrs EXCEPT !.ownerAddress = c.ownerAddress,
                !.ownerName = c.ownerName,
                !.roomName = c.name]

\* Mutant: the handler state is not moved to _CONFIRMMODE when a room is found.
roomFoundKeepsState(attrs, c) ==
  IF truthy(c)
    THEN emitAsk(attrs, handlerState, responses,
                 t("ROOM_AVAILABLE_MESSAGE", attrs.roomName),
                 t("ROOM_AVAILABLE_REPROMPT", attrs.roomName))
    ELSE emitAsk(attrs, handlerState, responses,
                 t("TIME_UNAVAILABLE_MESSAGE", attrs.duration),
                 t("TIME_UNAVAILABLE_REPROMPT", attrs.duration))

\* The handlers DurationIntent attaches to getRoom (index.js 131-154)
roomFound(attrs, c) ==
  IF truthy(c)
    THEN emitAsk(attrs, CONFIRMMODE, responses,
                 t("ROOM_AVAILABLE_MESSAGE", attrs.roomName),
                 t("ROOM_AVAILABLE_REPROMPT", attrs.roomName))
    ELSE emitAsk(attrs, handlerState, responses,
                 t("TIME_UNAVAILABLE_MESSAGE", attrs.duration),
                 t("TIME_UNAVAILABLE_REPROMPT", attrs.duration))

\* Mutant: the failed lookup is reported with a prompt.
roomErrorAsk(error) ==
  emitAsk(attributes, handlerState, responses,
          t("ROOM_ERROR", undefined), t("ROOM_ERROR_CARD_TITLE", undefined))

roomError(error) ==
  emitTellWithCard(attributes, handlerState, responses,
                   t("ROOM_ERROR", undefined),
                   t("ROOM_ERROR_CARD_TITLE", undefined), error)

\* ------------------------------------------------------------- timeModeHandlers
\* Mutant: the duration is stored before it is validated.
DurationIntentStoresFirst ==
  /\ \E value \in DurationSlots :
       LET bookingDuration == momentDuration(value)
           stored == setDuration(attributes, bookingDuration, now') IN
       /\ Begin(TIMEMODE, {"DurationIntent"}, value)
       /\ IF tooLong(bookingDuration)
            THEN /\ emitAsk(stored, TIMEMODE, 0,
                            t("TIME_TOO_LONG_MESSAGE", undefined),
                            t("TIME_TOO_LONG_REPROMPT", undefined))
                 /\ requested' = NoRequests
          ELSE IF tooShort(bookingDuration)
            THEN /\ emitAsk(stored, TIMEMODE, 0,
                            t("TIME_UNHANDLED_MESSAGE", undefined),
                            t("TIME_UNHANDLED_REPROMPT", undefined))
                 /\ requested' = NoRequests
          ELSE /\ attributes' = stored
               /\ handlerState' = TIMEMODE
               /\ requested' = [NoRequests EXCEPT !.calendars = 1]
               /\ pc' = "getCalendars"
               /\ exit' = "none"
               /\ responses' = 0
               /\ transcript' = (IF heard' = Off THEN <<>> ELSE transcript)
               /\ UNCHANGED <<sessionOpen, response>>
  /\ UNCHANGED postVars

\* 'DurationIntent' (index.js 109-163), up to the getCalendars request
DurationIntent ==
  /\ \E value \in DurationSlots :
       LET bookingDuration == momentDuration(value) IN
       /\ Begin(TIMEMODE, {"DurationIntent"}, value)
       /\ IF tooLong(bookingDuration)
            THEN /\ emitAsk(attributes, TIMEMODE, 0,
                            t("TIME_TOO_LONG_MESSAGE", undefined),
                            t("TIME_TOO_LONG_REPROMPT", undefined))
                 /\ requested' = NoRequests
          ELSE IF tooShort(bookingDuration)
            THEN /\ emitAsk(attributes, TIMEMODE, 0,
                            t("TIME_UNHANDLED_MESSAGE", undefined),
                            t("TIME_UNHANDLED_REPROMPT", undefined))
                 /\ requested' = NoRequests
          ELSE /\ attributes' = setDuration(attributes, bookingDuration, now')
               /\ handlerState' = TIMEMODE
               /\ requested' = [NoRequests EXCEPT !.calendars = 1]
               /\ pc' = "getCalendars"
               /\ exit' = "none"
               /\ responses' = 0
               /\ transcript' = (IF heard' = Off THEN <<>> ELSE transcript)
               /\ UNCHANGED <<sessionOpen, response>>
  /\ UNCHANGED postVars

\* The callback of getCalendars (index.js 447-457) and what getRoom and
\* DurationIntent chain to it (index.js 325-340, 147-154): a listing starts
\* findFreeRoom, which sends one calendarView request per allow-listed calendar.
getCalendarsCallback ==
  /\ pc = "getCalendars"
  /\ UNCHANGED <<heard, now, event, postCalls, posts, posted, postReply>>
  /\ \E reply \in ListReplies, cals \in SUBSET Calendars :
       IF JSONparseThrows(reply)
         THEN /\ Throw
              /\ UNCHANGED <<parsedCals, completions, findFree, requested,
                             lookup>>
       ELSE IF reply = "error"
         THEN /\ roomError([message |-> "calendars"])
              /\ UNCHANGED <<resolverVars, requested, lookup>>
       ELSE /\ parsedCals' = cals
            /\ lookup' = [startTime |-> attributes.startTime,
                          endTime |-> attributes.endTime,
                          creds |-> undefined]
            /\ inFlight' = namesToFind(cals)
            /\ requested' =
                 [requested EXCEPT !.calendarView = Cardinality(namesToFind(cals))]
            /\ findFree' = Qdefer
            /\ pc' = "findFreeRoom"
            /\ UNCHANGED <<sessionOpen, attributes, handlerState, exit,
                           responses, response, completions, transcript>>

\* One calendarView reply arrives while DurationIntent waits (index.js
\* 495-508), with the handlers of getRoom and DurationIntent when it settles
\* the promise of findFreeRoom.
calendarViewCallback ==
  /\ pc = "findFreeRoom"
  /\ UNCHANGED <<heard, now, event, postCalls, posts, posted, requested,
                 postReply>>
  /\ \E calendar \in inFlight, reply \in ViewReplies :
       IF JSONparseThrows(reply)
         THEN /\ Throw
              /\ completions' =
                   Append(completions, [calendar |-> calendar, reply |-> reply])
              /\ UNCHANGED <<parsedCals, findFree, lookup>>
       ELSE LET settled == findFreeRoomCallback(findFree, calendar, reply) IN
            /\ findFree' = settled
            /\ lookup' = IF settled.state = "fulfilled"
                           THEN [lookup EXCEPT !.creds = settled.value]
                           ELSE lookup
            /\ inFlight' = inFlight \ {calendar}
            /\ completions' =
                 Append(completions, [calendar |-> calendar, reply |-> reply])
            /\ UNCHANGED parsedCals
            /\ IF settled.state = "fulfilled"
                 THEN roomFound(storeCreds(attributes, settled.value),
                                settled.value)
               ELSE IF settled.state = "rejected"
                 THEN roomError(settled.value)
               ELSE UNCHANGED <<sessionOpen, attributes, handlerState, pc,
                                exit, responses, response, transcript>>

\* A calendarView reply that arrives after the invocation has responded: its
\* callback still runs against the settled deferred (when the container is
\* thawed); nothing listens any more.
lateCalendarViewCallback ==
  /\ pc = "idle"
  /\ \E calendar \in inFlight, reply \in ViewReplies :
       /\ completions' =
            Append(completions, [calendar |-> calendar, reply |-> reply])
       /\ IF JSONparseThrows(reply)
            THEN /\ inFlight' = {}
                 /\ UNCHANGED findFree
            ELSE /\ findFree' = findFreeRoomCallback(findFree, calendar, reply)
                 /\ inFlight' = inFlight \ {calendar}
  /\ UNCHANGED <<sessionOpen, attributes, handlerState, heard, now, event, pc,
                 exit,
                 responses, response, parsedCals, postCalls, posts, posted,
                 requested, postReply, lookup, transcript>>

\* ------------------------------------------------------------- confirmModeHandlers
\* Mutant: the event ends when it starts.
newEventEndsAtStart(ownerAddress, ownerName, startTime, endTime) ==
  [Start |-> startTime, End |-> startTime,
   EmailAddress |-> [Address |-> ownerAddress, Name |-> ownerName]]

\* The event requesters.postRoom posts (index.js 382-404): its start, its end
\* and the one attendee it invites.
newEvent(ownerAddress, ownerName, startTime, endTime) ==
  [Start |-> startTime, End |-> endTime,
   EmailAddress |-> [Address |-> ownerAddress, Name |-> ownerName]]

\* Mutant: the booking handler also answers in _TIMEMODE, where a room has
\* not been confirmed.
postRoomUnconfirmed ==
  \E state \in {TIMEMODE, CONFIRMMODE} :
    /\ Begin(state, {"AMAZON.YesIntent", "BookIntent", "Unhandled"}, undefined)
    /\ Dispatch(CONFIRMMODE, event'.intent) \in {"AMAZON.YesIntent", "BookIntent"}
    /\ postCalls' = postCalls + 1
    /\ posts' = posts + 1
    /\ posted' = newEvent(attributes.ownerAddress, attributes.ownerName,
                          attributes.startTime, attributes.endTime)
    /\ requested' = [NoRequests EXCEPT !.events = 1]
    /\ handlerState' = state
    /\ pc' = "postRoom"
    /\ exit' = "none"
    /\ responses' = 0
    /\ transcript' = (IF heard' = Off THEN <<>> ELSE transcript)
    /\ UNCHANGED <<sessionOpen, attributes, response>>

\* 'BookIntent' of _CONFIRMMODE, also reached from 'AMAZON.YesIntent' through
\* emitWithState (index.js 204-211): postRoom sends the one request.post
\* (index.js 377-416).
postRoom ==
  /\ Begin(CONFIRMMODE, {"AMAZON.YesIntent", "BookIntent"}, undefined)
  /\ postCalls' = postCalls + 1
  /\ posts' = posts + 1
  /\ posted' = newEvent(attributes.ownerAddress, attributes.ownerName,
                        attributes.startTime, attributes.endTime)
  /\ requested' = [NoRequests EXCEPT !.events = 1]
  /\ handlerState' = CONFIRMMODE
  /\ pc' = "postRoom"
  /\ exit' = "none"
  /\ responses' = 0
  /\ transcript' = (IF heard' = Off THEN <<>> ELSE transcript)
  /\ UNCHANGED <<sessionOpen, attributes, response>>

\* Mutant: the outcome of the booking is reported with a prompt that keeps the
\* session open.
postRoomCallbackAsk(reply) ==
  /\ pc = "postRoom"
  /\ UNCHANGED <<heard, now, event, postCalls, posts, posted, requested,
                 lookup>>
  /\ IF JSONparseThrows(reply)
       THEN Throw
     ELSE IF replyErr(reply) # undefined \/ reply = "error"
       THEN emitAsk(attributes, handlerState, responses,
                    t("BOOKING_ERROR", undefined),
                    t("BOOKING_ERROR", undefined))
     ELSE emitAsk(attributes, handlerState, responses,
                  t("ROOM_BOOKED", <<attributes.ownerName,
                                     attributes.duration>>),
                  t("ROOM_BOOKED", <<attributes.ownerName,
                                     attributes.duration>>))
  /\ IF JSONparseThrows(reply)
       THEN UNCHANGED <<parsedCals, completions, findFree>>
       ELSE UNCHANGED resolverVars
  /\ postReply' = reply

\* Mutant: a rejected write is sent again.
postRoomCallbackRetry(reply) ==
  /\ pc = "postRoom"
  /\ UNCHANGED <<heard, now, event, postCalls, posted, requested, lookup>>
  /\ IF JSONparseThrows(reply)
       THEN Throw /\ UNCHANGED posts
     ELSE IF replyErr(reply) # undefined \/ reply = "error"
       THEN /\ posts' = posts + 1
            /\ UNCHANGED <<sessionOpen, attributes, handlerState, pc, exit,
                           responses, response, transcript>>
     ELSE /\ emitTellWithCard(attributes, handlerState, responses,
                              t("ROOM_BOOKED", <<attributes.ownerName,
                                                 attributes.duration>>),
                              t("CARD_ROOM_BOOKED_TITLE", attributes.ownerName),
                              t("CARD_ROOM_BOOKED_CONTENT",
                                <<attributes.ownerName, attributes.duration>>))
          /\ UNCHANGED posts
  /\ IF JSONparseThrows(reply)
       THEN UNCHANGED <<parsedCals, completions, findFree>>
       ELSE UNCHANGED resolverVars
  /\ postReply' = reply

\* The callback of request.post (index.js 417-427) and the handlers
\* BookIntent attaches to postRoom (index.js 212-225)
postRoomCallback(reply) ==
  /\ pc = "postRoom"
  /\ UNCHANGED <<heard, now, event, postCalls, posts, posted, requested,
                 lookup>>
  /\ IF JSONparseThrows(reply)
       THEN Throw
     ELSE IF replyErr(reply) # undefined \/ reply = "error"
       THEN emitTellWithCard(attributes, handlerState, responses,
                             t("BOOKING_ERROR", undefined),
                             t("BOOKING_ERROR_CARD_TITLE", undefined),
                             [error |-> "events"])
     ELSE emitTellWithCard(attributes, handlerState, responses,
                           t("ROOM_BOOKED", <<attributes.ownerName,
                                              attributes.duration>>),
                           t("CARD_ROOM_BOOKED_TITLE", attributes.ownerName),
                           t("CARD_ROOM_BOOKED_CONTENT",
                             <<attributes.ownerName, attributes.duration>>))
  /\ IF JSONparseThrows(reply)
       THEN UNCHANGED <<parsedCals, completions, findFree>>
       ELSE UNCHANGED resolverVars
  /\ postReply' = reply

\* ------------------------------------------------------------- host
\* The host time-boxes an invocation (timeoutMs, test-lambda-local-example.js
\* 50): one that is still waiting is ended without a response.
hostTimeout ==
  /\ pc # "idle"
  /\ pc' = "idle"
  /\ exit' = "timeout"
  /\ sessionOpen' = FALSE
  /\ inFlight' = {}
  /\ UNCHANGED <<attributes, handlerState, heard, now, event, responses,
                 response,
                 parsedCals, completions, findFree, postCalls, posts, posted,
                 requested, postReply, lookup, transcript>>

Next ==
  \/ LaunchRequest
  \/ HelpIntent
  \/ RepeatIntent
  \/ SessionEndedRequest
  \/ BookIntent
  \/ Unhandled
  \/ emitStartOver
  \/ DurationIntent
  \/ getCalendarsCallback
  \/ calendarViewCallback
  \/ lateCalendarViewCallback
  \/ postRoom
  \/ \E reply \in PostReplies : postRoomCallback(reply)
  \/ hostTimeout

Spec == Init /\ [][Next]_vars

\* ------------------------------------------------------------- outcomes
\* The outcome of the Availability Resolver is the state of the promise of
\* findFreeRoom: Resolved(c) is fulfilled with the credentials of c, NoneFree
\* is fulfilled with a false value, Failed is rejected.
Searching == findFree.state # "none"
Resolved(c) == findFree = [state |-> "fulfilled", value |-> creds(c)]
NoneFree == findFree.state = "fulfilled" /\ ~truthy(findFree.value)
Failed == findFree.state = "rejected"

\* The candidates probed, and what has come back from them
Candidates == namesToFind(parsedCals)
Completed == {completions[i].calendar : i \in DOMAIN completions}
AllSettled == Searching /\ Completed = Candidates
RepliesOf(c) ==
  {completions[i].reply : i \in {j \in DOMAIN completions :
                                   completions[j].calendar = c}}
ErrorReplies == {"error", "garbage", "transport"}

\* ------------------------------------------------------------- claims
\* C1: when all N >= 1 candidate queries have completed, exactly one of them
\* Free and all the others Busy, the outcome is Resolved with the free
\* candidate, whatever the order of the completions was.
C1_OneFreeResolved ==
  \A c \in Candidates :
    (/\ AllSettled
     /\ RepliesOf(c) = {"free"}
     /\ \A d \in Candidates \ {c} : RepliesOf(d) = {"busy"})
    => Resolved(c)

\* C1 witness: three candidates have completed, the free one neither first nor
\* last, and the outcome is Resolved with it.
C1_Witness ==
  /\ AllSettled
  /\ Len(completions) = 3
  /\ completions[1].reply = "busy"
  /\ completions[2].reply = "free"
  /\ completions[3].reply = "busy"
  /\ Resolved(completions[2].calendar)

\* C2: when every candidate query has settled and all of them reported Busy,
\* the resolver has settled with the NoneFree outcome.
C2_AllBusyNoneFree ==
  (/\ AllSettled
   /\ Candidates # {}
   /\ \A c \in Candidates : RepliesOf(c) = {"busy"})
  => NoneFree

\* C3: when every candidate query has settled, none of them Free and at least
\* one of them with an error, the outcome is Failed and is not NoneFree.
C3_ErrorFailed ==
  (/\ AllSettled
   /\ \A c \in Candidates : "free" \notin RepliesOf(c)
   /\ \E c \in Candidates : RepliesOf(c) \cap ErrorReplies # {})
  => (Failed /\ ~NoneFree)

\* C4: the outcome is never Failed when a query has reported Free: an error
\* that completes before another candidate's Free leaves the outcome Resolved
\* with the free candidate.
C4_ErrorBeforeFreeResolved ==
  \A i, j \in DOMAIN completions :
    (/\ i < j
     /\ completions[i].reply = "error"
     /\ completions[j].reply = "free"
     /\ \A k \in 1..(j - 1) : completions[k].reply # "free")
    => (~Failed /\ Resolved(completions[j].calendar))

\* C5: when a candidate's query completes Free before any error and another
\* candidate's query completes with an error afterwards, the outcome is
\* Resolved with the free candidate.
C5_FreeThenErrorResolved ==
  \A i, j \in DOMAIN completions :
    (/\ i < j
     /\ completions[i].reply = "free"
     /\ \A k \in 1..(i - 1) : completions[k].reply = "busy"
     /\ completions[j].reply \in ErrorReplies)
    => Resolved(completions[i].calendar)

\* C5 witness: a Free, then an error body from another candidate, and the
\* outcome is Resolved with the first.
C5_Witness ==
  /\ Len(completions) >= 2
  /\ completions[1].reply = "free"
  /\ completions[2].reply = "error"
  /\ completions[2].calendar # completions[1].calendar
  /\ Resolved(completions[1].calendar)

\* ------------------------------------------------------------- responses
\* The invocation that was started last has ended
Finished == now > 0 /\ pc = "idle"

BookingFields ==
  {"ownerAddress", "ownerName", "roomName", "startTime", "endTime", "duration"}
OwnerFields == {"ownerAddress", "ownerName", "roomName"}
TimeFields == {"startTime", "endTime", "duration"}
AllSet(attrs, fields) == \A f \in fields : attrs[f] # undefined
AllUnset(attrs, fields) == \A f \in fields : attrs[f] = undefined
Responded == response.type # "none"
\* The resource key of the speech of the last response
SpeechKey ==
  IF Responded /\ "key" \in DOMAIN response.speech
    THEN response.speech.key
    ELSE "none"

\* C6: an invocation produces exactly one response: never more than one, and
\* one once it has ended with all its remote calls answered (ended other than
\* by the host's deadline, or by the deadline after every availability query
\* had come back).
C6_ExactlyOneResponse ==
  /\ responses <= 1
  /\ (Finished /\ (exit # "timeout" \/ AllSettled)) => responses = 1

\* C7: an invocation that has started an availability search is never ended
\* by the host's deadline: the search settles and the invocation responds.
C7_SearchNeverHangs ==
  ~(Searching /\ Finished /\ exit = "timeout")

C9_OneWritePerCall ==
  posts = postCalls

\* C9 witness: postRoom was called, its write was rejected and reported, and
\* one request was issued.
C9_Witness ==
  /\ postCalls = 1
  /\ posts = 1
  /\ Finished
  /\ SpeechKey = "BOOKING_ERROR"

\* C10 as stated: the six booking fields of the session attributes a response
\* carries are all set or all unset.
C10_AllOrNothing ==
  Responded =>
    \/ AllSet(response.sessionAttributes, BookingFields)
    \/ AllUnset(response.sessionAttributes, BookingFields)

\* C10 amended: in the session attributes a response carries, the owner/room
\* fields are all set or all unset, the time fields are all set or all unset,
\* and the owner/room fields are set only with the time fields; the time
\* fields are set alone only in the card that reports a failed lookup and
\* ends the session.
C10_GroupsAtomic ==
  Responded =>
    LET attrs == response.sessionAttributes IN
    /\ AllSet(attrs, OwnerFields) \/ AllUnset(attrs, OwnerFields)
    /\ AllSet(attrs, TimeFields) \/ AllUnset(attrs, TimeFields)
    /\ AllSet(attrs, OwnerFields) => AllSet(attrs, TimeFields)
    /\ (AllSet(attrs, TimeFields) /\ AllUnset(attrs, OwnerFields))
         => /\ response.type = ":tellWithCard"
            /\ SpeechKey = "ROOM_ERROR"
            /\ response.shouldEndSession

\* C10 witness: after a search that resolved to a room, a start-over and a
\* second search that failed, the card of the failure carries the time fields
\* alone.
C10_Witness ==
  /\ Responded
  /\ SpeechKey = "ROOM_ERROR"
  /\ event.intent = "DurationIntent"
  /\ AllSet(response.sessionAttributes, TimeFields)
  /\ AllUnset(response.sessionAttributes, OwnerFields)
  /\ Failed

\* ------------------------------------------------------------- invocations
\* The last invocation carried `intent` in `state` and has ended.
Invoked(state, intents) ==
  now > 0 /\ event.state = state /\ event.intent \in intents

\* C11: once an invocation of the restart intent has ended, in whichever of
\* the three states it arrived, ownerAddress, ownerName, roomName, startTime,
\* endTime and duration are all unset in the session attributes and in the
\* attributes the response carries.
C11_RestartClearsBooking ==
  \A state \in States :
    (Invoked(state, {"AMAZON.StartOverIntent"}) /\ Finished) =>
      /\ AllUnset(attributes, BookingFields)
      /\ Responded /\ AllUnset(response.sessionAttributes, BookingFields)

\* The restart arrived while a room was awaiting confirmation, so that all six
\* fields were set before it.
C11_Witness ==
  /\ Invoked(CONFIRMMODE, {"AMAZON.StartOverIntent"}) /\ Finished
  /\ exit = "response"
  /\ AllUnset(attributes, BookingFields)

\* C12 as stated: an invocation of the restart intent, in whichever state,
\* answers with the ask-for-duration prompt and leaves the session in
\* _TIMEMODE.
C12_RestartAsksDuration ==
  \A state \in States :
    (Invoked(state, {"AMAZON.StartOverIntent"}) /\ Finished) =>
      /\ SpeechKey = "TIME_DURATION_MESSAGE"
      /\ attributes.STATE = TIMEMODE

\* C12, amended: a restart in _TIMEMODE or _CONFIRMMODE answers with the
\* welcome prompt of 'LaunchRequest', keeps the session open and leaves the
\* state ''; in the default state the restart intent has no listener and
\* 'Unhandled' answers, the state staying ''.  No request is issued.
C12_RestartRelaunches ==
  \A state \in States :
    (Invoked(state, {"AMAZON.StartOverIntent"}) /\ Finished) =>
      /\ response.type = ":ask" /\ sessionOpen
      /\ SpeechKey = (IF state = "" THEN "UNHANDLED_MESSAGE"
                                    ELSE "WELCOME_MESSAGE")
      /\ response.reprompt.key = (IF state = "" THEN "UNHANDLED_REPROMPT"
                                                ELSE "WELCOME_REPROMPT")
      /\ attributes.STATE = ""
      /\ response.sessionAttributes.STATE = ""
      /\ requested = NoRequests

\* The restart arrived while a duration was being collected.
C12_Witness ==
  /\ Invoked(TIMEMODE, {"AMAZON.StartOverIntent"}) /\ Finished
  /\ SpeechKey = "WELCOME_MESSAGE"
  /\ attributes.STATE = ""

\* C13: an invocation of the repeat intent, in whichever state, that follows
\* a response of the session answers with a prompt whose speech and reprompt
\* are those of that response, and leaves the state and the six booking
\* fields as they were.
C13_RepeatReplays ==
  [][(event'.intent = "AMAZON.RepeatIntent" /\ now' = now + 1 /\ Responded) =>
       /\ response'.type = ":ask" /\ sessionOpen'
       /\ response'.speech = response.speech
       /\ response'.reprompt = response.reprompt
       /\ attributes'.STATE = attributes.STATE
       /\ response'.sessionAttributes.STATE = attributes.STATE
       /\ \A f \in BookingFields :
            /\ attributes'[f] = attributes[f]
            /\ response'.sessionAttributes[f] = attributes[f]]_vars

\* The confirmation prompt that names the room is repeated.
C13_Witness ==
  /\ Invoked(CONFIRMMODE, {"AMAZON.RepeatIntent"}) /\ Finished
  /\ SpeechKey = "ROOM_AVAILABLE_MESSAGE"
  /\ response.reprompt.key = "ROOM_AVAILABLE_REPROMPT"
  /\ attributes.STATE = CONFIRMMODE

\* ------------------------------------------------------------- duration validator
\* The duration the last request supplied, in minutes; a value that is no
\* duration, and no value, have none.
Parseable == DOMAIN event.slot = {"h", "m"}
SuppliedMinutes == event.slot.h * 60 + event.slot.m
\* A search was started: the directory request went out.
SearchStarted == requested.calendars = 1
RejectedAs(key) ==
  /\ Finished /\ exit = "response" /\ response.type = ":ask"
  /\ SpeechKey = key
  /\ requested = NoRequests

\* C14: a DurationIntent in _TIMEMODE starts a search exactly when the
\* supplied duration d has 0 < d <= 120 minutes; d <= 0, and a value that is
\* no duration, are refused with the not-understood prompt, d > 120 minutes
\* with the too-long prompt.
C14_DurationValidator ==
  Invoked(TIMEMODE, {"DurationIntent"}) =>
    /\ SearchStarted <=>
         (Parseable /\ 0 < SuppliedMinutes /\ SuppliedMinutes <= 120)
    /\ (~Parseable \/ SuppliedMinutes <= 0) =>
         RejectedAs("TIME_UNHANDLED_MESSAGE")
    /\ (Parseable /\ SuppliedMinutes > 120) =>
         RejectedAs("TIME_TOO_LONG_MESSAGE")

\* A duration of exactly two hours was supplied and the search went out.
C14_Witness ==
  /\ Invoked(TIMEMODE, {"DurationIntent"})
  /\ event.slot = [h |-> 2, m |-> 0]
  /\ SearchStarted
  /\ attributes.duration = [minutes |-> 120]

\* C15: a DurationIntent in _TIMEMODE whose duration is refused (no duration,
\* d <= 0 or d > 120 minutes) answers with a prompt that keeps the session
\* open, leaves the state _TIMEMODE and the six booking fields as they were,
\* and issues no calendars request and no calendarView request.
C15_RejectedDurationReprompts ==
  [][(/\ event'.intent = "DurationIntent" /\ event'.state = TIMEMODE
      /\ now' = now + 1
      /\ \/ DOMAIN event'.slot # {"h", "m"}
         \/ event'.slot.h * 60 + event'.slot.m <= 0
         \/ event'.slot.h * 60 + event'.slot.m > 120) =>
       /\ pc' = "idle" /\ exit' = "response" /\ responses' = 1
       /\ response'.type = ":ask" /\ ~response'.shouldEndSession
       /\ response'.reprompt # undefined
       /\ sessionOpen'
       /\ attributes'.STATE = TIMEMODE
       /\ response'.sessionAttributes.STATE = TIMEMODE
       /\ \A f \in BookingFields :
            /\ attributes'[f] = attributes[f]
            /\ response'.sessionAttributes[f] = attributes[f]
       /\ requested'.calendars = 0 /\ requested'.calendarView = 0
       /\ inFlight' = {}]_vars

\* Three hours were asked for and refused; nothing was stored.
C15_Witness ==
  /\ Invoked(TIMEMODE, {"DurationIntent"}) /\ Finished
  /\ event.slot = [h |-> 3, m |-> 0]
  /\ SpeechKey = "TIME_TOO_LONG_MESSAGE"
  /\ sessionOpen
  /\ attributes.STATE = TIMEMODE
  /\ AllUnset(attributes, TimeFields)

\* C16: in the default state both 'BookIntent' and 'AMAZON.YesIntent' answer
\* with the ask-for-duration prompt, keep the session open and leave the state
\* _TIMEMODE, and the invocation issues no request.
C16_IdleBookAsksDuration ==
  \A intent \in {"BookIntent", "AMAZON.YesIntent"} :
    Invoked("", {intent}) =>
      /\ Finished /\ exit = "response" /\ responses = 1
      /\ response.type = ":ask" /\ ~response.shouldEndSession
      /\ sessionOpen
      /\ response.speech = t("TIME_DURATION_MESSAGE", undefined)
      /\ response.reprompt = t("TIME_DURATION_REPROMPT", undefined)
      /\ attributes.STATE = TIMEMODE
      /\ response.sessionAttributes.STATE = TIMEMODE
      /\ requested = NoRequests /\ inFlight = {} /\ posts = 0

\* The affirmative intent opened the booking.
C16_Witness ==
  /\ Invoked("", {"AMAZON.YesIntent"}) /\ Finished
  /\ SpeechKey = "TIME_DURATION_MESSAGE"
  /\ attributes.STATE = TIMEMODE

\* C17: after a DurationIntent in _TIMEMODE whose duration was accepted, the
\* state is _CONFIRMMODE exactly when findFreeRoom resolved to a candidate;
\* then roomName, ownerName and ownerAddress of the session are those of that
\* candidate and the response is the confirmation prompt with its name.
C17_ResolvedAwaitsConfirmation ==
  (Invoked(TIMEMODE, {"DurationIntent"}) /\ SearchStarted) =>
    /\ attributes.STATE = CONFIRMMODE <=> \E c \in Calendars : Resolved(c)
    /\ \A c \in Calendars :
         Resolved(c) =>
           /\ Finished /\ exit = "response" /\ sessionOpen
           /\ attributes.roomName = calendarName(c)
           /\ attributes.ownerName = calendarOwner(c).name
           /\ attributes.ownerAddress = calendarOwner(c).address
           /\ response.type = ":ask"
           /\ response.speech = t("ROOM_AVAILABLE_MESSAGE", calendarName(c))
           /\ response.reprompt = t("ROOM_AVAILABLE_REPROMPT", calendarName(c))
           /\ response.sessionAttributes = attributes

\* The second of two candidates was free; the first was busy.
C17_Witness ==
  /\ Invoked(TIMEMODE, {"DurationIntent"}) /\ Finished
  /\ Resolved(2)
  /\ 1 \in Completed
  /\ attributes.STATE = CONFIRMMODE
  /\ attributes.roomName = calendarName(2)

\* Every candidate was probed, there was at least one, and each replied busy.
AllBusy ==
  /\ AllSettled /\ Candidates # {}
  /\ \A c \in Candidates : RepliesOf(c) = {"busy"}

\* C18: a DurationIntent in _TIMEMODE with an accepted duration whose
\* candidates all replied busy ends with the time-unavailable prompt that
\* names the requested duration, the session open and the state _TIMEMODE.
C18_AllBusyReprompts ==
  (Invoked(TIMEMODE, {"DurationIntent"}) /\ AllBusy /\ Finished) =>
    /\ exit = "response" /\ response.type = ":ask" /\ sessionOpen
    /\ response.speech = t("TIME_UNAVAILABLE_MESSAGE", attributes.duration)
    /\ response.reprompt = t("TIME_UNAVAILABLE_REPROMPT", attributes.duration)
    /\ attributes.STATE = TIMEMODE

\* C19: once the reply to the request.post of an affirmative intent in
\* _CONFIRMMODE has come back, the invocation has ended with a card that
\* closes the session: the room-booked card when the write succeeded, the
\* booking-error card when it failed.
C19_CommitCloses ==
  (Invoked(CONFIRMMODE, {"AMAZON.YesIntent", "BookIntent"})
     /\ postReply # "none") =>
    /\ requested.events = 1
    /\ Finished /\ exit = "response" /\ responses = 1
    /\ response.type = ":tellWithCard" /\ response.shouldEndSession
    /\ ~sessionOpen
    /\ SpeechKey = (IF postReply = "ok" THEN "ROOM_BOOKED" ELSE "BOOKING_ERROR")
    /\ response.card.title.key =
         (IF postReply = "ok" THEN "CARD_ROOM_BOOKED_TITLE"
                              ELSE "BOOKING_ERROR_CARD_TITLE")

\* C20: a 'AMAZON.NoIntent', 'AMAZON.CancelIntent' or 'AMAZON.StopIntent' in
\* _CONFIRMMODE ends the session with the goodbye statement, and the
\* invocation issues no request.post.
C20_DeclineEndsSession ==
  \A intent \in {"AMAZON.NoIntent", "AMAZON.CancelIntent", "AMAZON.StopIntent"} :
    Invoked(CONFIRMMODE, {intent}) =>
      /\ Finished /\ exit = "response" /\ responses = 1
      /\ response.type = ":tell" /\ response.shouldEndSession
      /\ response.speech = t("STOP_MESSAGE", undefined)
      /\ ~sessionOpen
      /\ requested.events = 0 /\ posts = 0 /\ postCalls = 0
      /\ postReply = "none"

\* The found room was declined.
C20_Witness ==
  /\ Invoked(CONFIRMMODE, {"AMAZON.NoIntent"}) /\ Finished
  /\ SpeechKey = "STOP_MESSAGE"
  /\ ~sessionOpen
  /\ AllSet(attributes, BookingFields)

\* ------------------------------------------------------------- end to end
\* The three responses of a booking of candidate c for thirty minutes
AskDuration ==
  [type |-> ":ask", speech |-> t("TIME_DURATION_MESSAGE", undefined),
   reprompt |-> t("TIME_DURATION_REPROMPT", undefined), card |-> undefined]
AskConfirmation(c) ==
  [type |-> ":ask", speech |-> t("ROOM_AVAILABLE_MESSAGE", calendarName(c)),
   reprompt |-> t("ROOM_AVAILABLE_REPROMPT", calendarName(c)),
   card |-> undefined]
TellBooked(c, minutes) ==
  [type |-> ":tellWithCard",
   speech |-> t("ROOM_BOOKED", <<calendarOwner(c).name, [minutes |-> minutes]>>),
   reprompt |-> undefined,
   card |-> [title |-> t("CARD_ROOM_BOOKED_TITLE", calendarOwner(c).name),
             content |-> t("CARD_ROOM_BOOKED_CONTENT",
                           <<calendarOwner(c).name, [minutes |-> minutes]>>)]]

\* C21: a session of exactly BookIntent, DurationIntent PT30M and
\* AMAZON.YesIntent, in which the search resolved to candidate c and the
\* request.post succeeded, returned in this order the ask-for-duration
\* prompt, the confirmation prompt naming c and the room-booked card naming
\* c's owner and 30 minutes, and issued exactly one request.post.
C21_EndToEnd ==
  \A c \in Calendars :
    (/\ heard = Scenario /\ Finished
     /\ attributes.roomName = calendarName(c)
     /\ postReply = "ok") =>
      /\ transcript = <<AskDuration, AskConfirmation(c), TellBooked(c, 30)>>
      /\ response.type = ":tellWithCard" /\ ~sessionOpen
      /\ posts = 1 /\ postCalls = 1 /\ requested.events = 1

\* The scenario ran to its end with the second candidate.
C21_Witness ==
  /\ heard = Scenario /\ Finished /\ exit = "response"
  /\ postReply = "ok"
  /\ attributes.roomName = calendarName(2)
  /\ Len(transcript) = 3

\* ------------------------------------------------------------- failures
\* The reply to the calendars request came back and was no listing: the
\* request went out, findFreeRoom was never called, and the invocation did
\* not end at the host's deadline.
DirectoryFailed ==
  /\ requested.calendars = 1 /\ ~Searching
  /\ Finished /\ exit # "timeout"
\* The closing response that reports a failure: speech `key` and a card with
\* the cause.
ErrorCard(key) ==
  /\ exit = "response" /\ responses = 1
  /\ response.type = ":tellWithCard" /\ response.shouldEndSession
  /\ SpeechKey = key
  /\ response.card.content # undefined
  /\ ~sessionOpen

\* C22: a DurationIntent whose calendars request failed, or whose search
\* ended Failed, has answered with the room-error speech and a card carrying
\* the cause, the session is closed, the state is not _CONFIRMMODE, and each
\* request went out once.
C22_LookupFailureSurfaced ==
  (Invoked(TIMEMODE, {"DurationIntent"}) /\ (DirectoryFailed \/ Failed)) =>
    /\ Finished /\ ErrorCard("ROOM_ERROR")
    /\ attributes.STATE # CONFIRMMODE
    /\ requested.calendars = 1
    /\ requested.calendarView = Cardinality(Candidates)
    /\ Len(completions) <= Cardinality(Candidates)

\* C23: an affirmative intent in _CONFIRMMODE whose request.post failed in
\* transport or came back with an error body has answered with the
\* booking-error speech and a card carrying the cause, the session is closed,
\* and the request went out once.
C23_CommitFailureSurfaced ==
  (Invoked(CONFIRMMODE, {"AMAZON.YesIntent", "BookIntent"})
     /\ postReply \in {"error", "transport"}) =>
    /\ Finished /\ ErrorCard("BOOKING_ERROR")
    /\ posts = 1 /\ requested.events = 1

\* C24: no invocation ends with an uncaught exception, and one that a failed
\* request ended has answered with an error card.
C24_NoFailureEscapes ==
  /\ exit # "exception"
  /\ (Finished /\ (DirectoryFailed \/ Failed \/ postReply \in ErrorReplies)) =>
       (ErrorCard("ROOM_ERROR") \/ ErrorCard("BOOKING_ERROR"))

\* C25: while the last response of the session is one that keeps it open,
\* the speechOutput and repromptSpeech attributes, in the session and in the
\* attributes that response carried, are the speech and reprompt of that
\* response.
C25_RepeatConsistency ==
  (Responded /\ ~response.shouldEndSession) =>
    /\ response.type = ":ask"
    /\ response.sessionAttributes.speechOutput = response.speech
    /\ response.sessionAttributes.repromptSpeech = response.reprompt
    /\ attributes.speechOutput = response.speech
    /\ attributes.repromptSpeech = response.reprompt

\* The help prompt of _TIMEMODE replaced the ask-for-duration prompt.
C25_Witness ==
  /\ Invoked(TIMEMODE, {"AMAZON.HelpIntent"}) /\ Finished /\ sessionOpen
  /\ SpeechKey = "TIME_HELP_MESSAGE"
  /\ attributes.speechOutput.key = "TIME_HELP_MESSAGE"
  /\ attributes.repromptSpeech.key = "TIME_HELP_REPROMPT"

\* C26: an AMAZON.YesIntent or BookIntent delivered in _CONFIRMMODE goes to
\* the handler that books: the request.post is issued, the response is never
\* the ask-for-duration prompt and the state never becomes _TIMEMODE.
C26_ConfirmIntentCommits ==
  Invoked(CONFIRMMODE, {"AMAZON.YesIntent", "BookIntent"}) =>
    /\ requested.events = 1 /\ postCalls = 1
    /\ SpeechKey # "TIME_DURATION_MESSAGE"
    /\ attributes.STATE = CONFIRMMODE
    /\ handlerState = CONFIRMMODE
    /\ Responded => response.sessionAttributes.STATE = CONFIRMMODE

\* BookIntent arrived in _CONFIRMMODE and the booking was written.
C26_Witness ==
  /\ Invoked(CONFIRMMODE, {"BookIntent"}) /\ Finished
  /\ postReply = "ok"
  /\ SpeechKey = "ROOM_BOOKED"
  /\ attributes.STATE = CONFIRMMODE

\* ------------------------------------------------------------- frame
\* A step that answered with the prompt `speech`/`reprompt`, kept the session
\* open, left the state and the six booking fields as they were and issued
\* no request.
PromptOnly(speech, reprompt) ==
  /\ pc' = "idle" /\ exit' = "response" /\ responses' = 1
  /\ response'.type = ":ask" /\ ~response'.shouldEndSession
  /\ sessionOpen'
  /\ response'.speech = speech
  /\ response'.reprompt = reprompt
  /\ attributes'.STATE = attributes.STATE
  /\ response'.sessionAttributes.STATE = attributes.STATE
  /\ \A f \in BookingFields :
       /\ attributes'[f] = attributes[f]
       /\ response'.sessionAttributes[f] = attributes[f]
  /\ requested' = NoRequests /\ inFlight' = {}
  /\ UNCHANGED postVars

\* C27: an AMAZON.HelpIntent answers with the help prompt of the state it
\* arrives in (the prompts of _TIMEMODE and _CONFIRMMODE carry the room
\* name), keeps the session open, changes neither the state nor a booking
\* field, and issues no request.
C27_HelpKeepsState ==
  [][(event'.intent = "AMAZON.HelpIntent" /\ now' = now + 1) =>
       IF attributes.STATE = TIMEMODE
         THEN PromptOnly(t("TIME_HELP_MESSAGE", attributes.roomName),
                         t("TIME_HELP_REPROMPT", attributes.roomName))
       ELSE IF attributes.STATE = CONFIRMMODE
         THEN PromptOnly(t("BOOKING_HELP_MESSAGE", attributes.roomName),
                         t("BOOKING_HELP_REPROMPT", attributes.roomName))
       ELSE PromptOnly(t("HELP_MESSAGE", undefined),
                       t("HELP_REPROMPT", undefined))]_vars

\* Help was asked for while a room awaited confirmation.
C27_Witness ==
  /\ Invoked(CONFIRMMODE, {"AMAZON.HelpIntent"}) /\ Finished /\ sessionOpen
  /\ SpeechKey = "BOOKING_HELP_MESSAGE"
  /\ attributes.STATE = CONFIRMMODE
  /\ AllSet(attributes, BookingFields)

\* C28: an intent that has no listener in the state it arrives in is answered
\* with the fallback prompt of that state, the session stays open, and neither
\* the state nor a booking field changes.
C28_UnhandledReprompts ==
  [][(now' = now + 1 /\ event'.intent \notin Listeners(attributes.STATE)) =>
       IF attributes.STATE = TIMEMODE
         THEN PromptOnly(t("TIME_UNHANDLED_MESSAGE", undefined),
                         t("TIME_UNHANDLED_REPROMPT", undefined))
       ELSE IF attributes.STATE = CONFIRMMODE
         THEN PromptOnly(t("BOOKING_UNHANDLED_MESSAGE", undefined),
                         t("BOOKING_UNHANDLED_REPROMPT", undefined))
       ELSE PromptOnly(t("UNHANDLED_MESSAGE", undefined),
                       t("UNHANDLED_REPROMPT", undefined))]_vars

\* A duration was given while a room awaited confirmation.
C28_Witness ==
  /\ Invoked(CONFIRMMODE, {"DurationIntent"}) /\ Finished /\ sessionOpen
  /\ SpeechKey = "BOOKING_UNHANDLED_MESSAGE"
  /\ attributes.STATE = CONFIRMMODE
  /\ AllSet(attributes, BookingFields)

\* ------------------------------------------------------------- response kinds
\* The last response is a prompt that keeps the session open / a statement
\* that ends it.
Continuation ==
  /\ response.type = ":ask" /\ ~response.shouldEndSession
  /\ response.card = undefined
Closing ==
  /\ response.type \in {":tell", ":tellWithCard"} /\ response.shouldEndSession
  /\ response.reprompt = undefined
PromptKeys ==
  {"WELCOME_MESSAGE", "HELP_MESSAGE", "UNHANDLED_MESSAGE",
   "TIME_DURATION_MESSAGE", "TIME_HELP_MESSAGE", "TIME_TOO_LONG_MESSAGE",
   "TIME_UNHANDLED_MESSAGE", "TIME_UNAVAILABLE_MESSAGE",
   "ROOM_AVAILABLE_MESSAGE", "BOOKING_HELP_MESSAGE",
   "BOOKING_UNHANDLED_MESSAGE"}

C30_OutcomeFinal ==
  [][(findFree.state \in {"fulfilled", "rejected"} /\ now' = now) =>
       /\ findFree' = findFree
       /\ responses' = responses /\ response' = response
       /\ transcript' = transcript
       /\ attributes' = attributes]_vars

\* The first candidate was free and won; the replies of the two others, one
\* free and one an error, arrived afterwards.
C30_Witness ==
  /\ Resolved(1) /\ Finished
  /\ Len(completions) = 3
  /\ completions[1] = [calendar |-> 1, reply |-> "free"]
  /\ {completions[2].reply, completions[3].reply} = {"free", "error"}
  /\ attributes.roomName = calendarName(1)
  /\ responses = 1

\* ------------------------------------------------------------- races
\* The first Free in completion order: the reply at position i is Free and
\* every reply before it was Busy.
FirstFree(i) ==
  /\ completions[i].reply = "free"
  /\ \A k \in 1..(i - 1) : completions[k].reply = "busy"

\* C31: when several candidates report Free the winner is the candidate whose
\* Free completed first, whatever its place in the candidate list: the outcome
\* is Resolved(c) exactly when the first Free in completion order is c's, so
\* each free candidate wins in the completion orders that put it first.  (The
\* replies before the winning Free are Busy ones: an error before the first
\* Free has settled the outcome already, and then nobody wins.)
C31_FirstFreeWins ==
  \A c \in Calendars :
    Resolved(c) <=>
      \E i \in DOMAIN completions :
        completions[i].calendar = c /\ FirstFree(i)

\* C31 witness: all three candidates reported Free, the last-listed one first,
\* and the outcome is Resolved with the last-listed one.
C31_Witness ==
  /\ Len(completions) = 3
  /\ \A i \in 1..3 : completions[i].reply = "free"
  /\ completions[1].calendar = MaxCals
  /\ completions[2].calendar = 1
  /\ Resolved(MaxCals)

\* C32: when the listing holds no allow-listed calendar, so that no candidate
\* is probed, the search that was started has settled as NoneFree by the time
\* its invocation has ended.
C32_NoCandidatesNoneFree ==
  (Searching /\ Candidates = {} /\ Finished) => NoneFree

\* ------------------------------------------------------------- session state
\* C33: the response to a start-over that arrives in _TIMEMODE or _CONFIRMMODE
\* stores the empty state in its session attributes, not the state of arrival,
\* and the handler state it was sent with is the empty one: the reset is not
\* undone by ':responseReady' skipping an empty handler state.
C33_StartOverStoresEmptyState ==
  [][\A state \in {TIMEMODE, CONFIRMMODE} :
       (/\ attributes.STATE = state
        /\ now' = now + 1
        /\ event'.intent = "AMAZON.StartOverIntent") =>
         /\ exit' = "response"
         /\ response'.sessionAttributes.STATE = ""
         /\ response'.sessionAttributes.STATE # state
         /\ handlerState' = ""
         /\ attributes' = response'.sessionAttributes]_vars

\* C33 witness: a start-over arrived while a room awaited confirmation, and
\* the prompt that answered it carries the empty state with the session open.
C33_Witness ==
  /\ Invoked(CONFIRMMODE, {"AMAZON.StartOverIntent"}) /\ Finished
  /\ response.type = ":ask" /\ sessionOpen
  /\ response.sessionAttributes.STATE = ""
  /\ handlerState = ""

\* ------------------------------------------------------------- session end
\* The invocation has ended with a response that closes the session.
ClosingResponse == Finished /\ exit = "response" /\ response.type # ":ask"

\* C34 as stated: the attributes a closing response carries have
\* ownerAddress, ownerName, roomName, startTime, endTime and duration unset.
C34_SessionEndClearsFields ==
  ClosingResponse => AllUnset(response.sessionAttributes, BookingFields)

\* C34, amended: a response that ends the session closes it and carries the
\* session attributes without clearing them.  The goodbye to a stop, cancel
\* or negative intent carries the six booking fields as they were before the
\* invocation; the card that closes a commit carries all six set; the card
\* that closes a failed lookup carries the time fields set and the owner
\* fields unset.
C34_SessionEndKeepsFields ==
  [][((now' = now + 1 \/ pc # "idle") /\ exit' = "response"
                                     /\ response'.type # ":ask") =>
       LET sent == response'.sessionAttributes IN
       /\ response'.shouldEndSession /\ ~sessionOpen'
       /\ attributes' = sent
       /\ (now' = now + 1) =>
            /\ event'.intent \in {"AMAZON.StopIntent", "AMAZON.CancelIntent",
                                  "AMAZON.NoIntent"}
            /\ response'.type = ":tell"
            /\ \A field \in BookingFields : sent[field] = attributes[field]
       /\ (pc = "postRoom") => AllSet(sent, BookingFields)
       /\ (pc \in {"getCalendars", "findFreeRoom"}) =>
            /\ AllSet(sent, TimeFields)
            /\ AllUnset(sent, OwnerFields)]_vars

\* C34 witness: the found room was refused with a stop, and the goodbye
\* carries the six fields of the room and the time span.
C34_Witness ==
  /\ Invoked(CONFIRMMODE, {"AMAZON.StopIntent"}) /\ ClosingResponse
  /\ response.type = ":tell" /\ response.shouldEndSession
  /\ AllSet(response.sessionAttributes, BookingFields)

\* ------------------------------------------------------------- soundness
\* C35: a candidate the search resolved to has its name on the allow-list
\* and is in the listing getCalendars returned, and the one reply to its own
\* calendarView request was an empty event list: no calendar that replied
\* Busy or with an error, and no calendar that was not asked, is returned.
C35_NoFalsePositive ==
  \A c \in Calendars :
    Resolved(c) =>
      /\ calendarName(c) \in testNames
      /\ c \in parsedCals
      /\ RepliesOf(c) = {"free"}
      /\ Cardinality({i \in DOMAIN completions : completions[i].calendar = c}) = 1

\* C35 witness: the listing held the user's own calendar and two rooms; one
\* room replied Busy, the other Free, and the outcome is the free one.
C35_Witness ==
  \E c, d \in 1..MaxCals :
    /\ parsedCals = {0, c, d}
    /\ RepliesOf(d) = {"busy"}
    /\ RepliesOf(c) = {"free"}
    /\ Resolved(c)

\* ------------------------------------------------------------- confirmation
\* C36: whenever the stored state is _CONFIRMMODE the six booking fields are
\* all set, and the stored state becomes _CONFIRMMODE only in a step of a
\* 'DurationIntent' invocation that arrived in _TIMEMODE, the step in which
\* the search of that invocation resolved to a candidate.
C36_ConfirmModeHasBooking ==
  [][/\ (attributes'.STATE = CONFIRMMODE) => AllSet(attributes', BookingFields)
     /\ (attributes.STATE # CONFIRMMODE /\ attributes'.STATE = CONFIRMMODE) =>
          /\ attributes.STATE = TIMEMODE
          /\ event.state = TIMEMODE /\ event.intent = "DurationIntent"
          /\ event' = event /\ now' = now
          /\ pc = "findFreeRoom" /\ findFree.state = "pending"
          /\ \E c \in Candidates : Resolved(c)']_vars

\* C36 witness: a help request was answered while a room awaited
\* confirmation; the stored state is still _CONFIRMMODE and the six fields
\* are those the search left.
C36_Witness ==
  /\ Invoked(CONFIRMMODE, {"AMAZON.HelpIntent"}) /\ Finished
  /\ sessionOpen
  /\ attributes.STATE = CONFIRMMODE
  /\ AllSet(attributes, BookingFields)

\* ------------------------------------------------------------- the write
\* The event that was posted is for the window the last search asked the
\* calendars about, and invites the mailbox of the candidate it resolved to.
WriteMatchesLookup ==
  /\ truthy(lookup.creds)
  /\ truthy(posted.Start) /\ posted.Start = lookup.startTime
  /\ truthy(posted.End) /\ posted.End = lookup.endTime
  /\ posted.EmailAddress = [Address |-> lookup.creds.ownerAddress,
                            Name |-> lookup.creds.ownerName]

\* C37: the event the booking write posts starts and ends when the window
\* checked by the calendarView requests of the resolving invocation starts and
\* ends, and its attendee is the mailbox (address and name) of the candidate
\* that invocation resolved to; a help, repeat or unrecognized intent that is
\* answered in _CONFIRMMODE in between changes none of the six booking fields.
C37_WriteUsesResolvedBooking ==
  [][/\ (posted' # NoEvent) => WriteMatchesLookup'
     /\ (/\ attributes.STATE = CONFIRMMODE
         /\ now' = now + 1
         /\ Dispatch(CONFIRMMODE, event'.intent) \in
              {"AMAZON.HelpIntent", "AMAZON.RepeatIntent", "Unhandled"}) =>
          /\ \A field \in BookingFields : attributes'[field] = attributes[field]
          /\ attributes'.STATE = CONFIRMMODE
          /\ lookup' = lookup /\ posted' = posted]_vars

\* C37 witness: the room was found in the second invocation and confirmed in
\* the fourth, with one invocation answered in _CONFIRMMODE in between; the
\* event posted is for the window of the second invocation.
C37_Witness ==
  /\ Invoked(CONFIRMMODE, {"AMAZON.YesIntent"}) /\ now = 4
  /\ lookup.startTime = [minute |-> 2 * 60]
  /\ posted.Start = [minute |-> 2 * 60]
  /\ WriteMatchesLookup

\* The intents that confirm a booking
ConfirmIntents == {"AMAZON.YesIntent", "BookIntent"}

\* C38: a request.post is issued only in the first step of an invocation that
\* arrives in _CONFIRMMODE with AMAZON.YesIntent or BookIntent; an invocation
\* that arrived in another state, or with any other intent, has issued none,
\* and no callback issues one.
C38_OnlyConfirmationWrites ==
  [][/\ (posts' # posts \/ postCalls' # postCalls \/ posted' # posted) =>
          /\ attributes.STATE = CONFIRMMODE
          /\ now' = now + 1
          /\ event'.state = CONFIRMMODE
          /\ event'.intent \in ConfirmIntents
          /\ posts' = posts + 1
     /\ (event'.state # CONFIRMMODE \/ event'.intent \notin ConfirmIntents) =>
          /\ requested'.events = 0
          /\ pc' # "postRoom"
          /\ postReply' = "none"]_vars

\* C38 witness: a write was issued, by an AMAZON.YesIntent that arrived in
\* _CONFIRMMODE, in a session that had answered a BookIntent and a
\* DurationIntent before it without writing.
C38_Witness ==
  /\ Invoked(CONFIRMMODE, {"AMAZON.YesIntent"})
  /\ pc = "postRoom"
  /\ requested.events = 1 /\ posts = 1
  /\ now >= 3

\* ------------------------------------------------------------- the directory
\* C39: a DurationIntent whose calendars request failed has ended Failed with
\* the error of that request as the cause it reports, and has sent no
\* calendarView request; calendarView requests are sent only once the
\* calendars request has returned a listing, one for each listed calendar
\* whose name is on the allow-list and for no other calendar.
C39_DirectoryGatesQueries ==
  /\ (Invoked(TIMEMODE, {"DurationIntent"}) /\ DirectoryFailed) =>
       /\ ErrorCard("ROOM_ERROR")
       /\ response.card.content = [message |-> "calendars"]
       /\ requested.calendarView = 0 /\ completions = <<>>
  /\ (requested.calendarView > 0 \/ completions # <<>>) =>
       /\ Searching /\ requested.calendars = 1
  /\ Searching =>
       LET listed == {c \in parsedCals : calendarName(c) \in testNames} IN
       /\ requested.calendarView = Cardinality(listed)
       /\ Completed \subseteq listed /\ inFlight \subseteq listed
       /\ Len(completions) = Cardinality(Completed)

\* ------------------------------------------------------------- goodbye
\* The intents that end the session
EndIntents == {"AMAZON.StopIntent", "AMAZON.CancelIntent", "AMAZON.NoIntent"}

\* C40: a stop, cancel or negative intent, in the default state, in _TIMEMODE
\* and in _CONFIRMMODE alike, is answered in one step with the same response,
\* the goodbye statement of the stateless 'SessionEndedRequest' with no
\* reprompt and no card, which ends the session; the state stays the one of
\* arrival and the invocation issues no request of any kind.
C40_EndIntentsSayGoodbye ==
  [][(now' = now + 1 /\ event'.intent \in EndIntents) =>
       /\ event'.state = attributes.STATE
       /\ pc' = "idle" /\ exit' = "response" /\ responses' = 1
       /\ response' = [type |-> ":tell",
                       speech |-> t("STOP_MESSAGE", undefined),
                       reprompt |-> undefined, card |-> undefined,
                       sessionAttributes |-> attributes,
                       shouldEndSession |-> TRUE]
       /\ ~sessionOpen'
       /\ attributes' = attributes
       /\ requested' = NoRequests
       /\ findFree' = NoDeferred /\ inFlight' = {}
       /\ posts' = posts /\ postCalls' = postCalls /\ posted' = posted]_vars

\* C40 witness: a cancel arrived while the duration was being asked for, and
\* the goodbye closed the session with no request issued.
C40_Witness ==
  /\ Invoked(TIMEMODE, {"AMAZON.CancelIntent"}) /\ Finished
  /\ response.type = ":tell" /\ SpeechKey = "STOP_MESSAGE"
  /\ ~sessionOpen
  /\ requested = NoRequests
  /\ attributes.STATE = TIMEMODE
====
